---- MODULE Spec2Model ----
(***************************************************************************)
(* Model of blenlib's BLI_mempool.c: a pool of fixed size elements kept in *)
(* chunks, with the free list threaded through the unused elements.        *)
(*                                                                         *)
(* An address is a pair <<chunk, slot>>: chunk is the address the backend  *)
(* gave for the chunk, slot the element's index inside it (the code's      *)
(* CHUNK_DATA(chunk) + slot * esize).  mem maps every address to the two   *)
(* words a BLI_freenode overlays on the element.                           *)
(***************************************************************************)
EXTENDS Integers, Sequences, FiniteSets, TLC

\* ------------------------------------------------------------------ bounds
MaxSlots == 5       \* most elements (chunks x pchunk) the pool is let to own
MaxPchunk == 2      \* largest elements-per-chunk tried
MaxTotelem == 4     \* largest initial element estimate tried
ElemSize == 16      \* the element size asked of BLI_mempool_create
\* the scenario: a pool of ScTotelem estimated elements, ScPchunk per chunk,
\* and ScAllocs allocations made on it
ScTotelem == 4
ScPchunk == 4
ScAllocs == 6
MaxWalkFrees == 2   \* most frees called while an iteration is followed
MaxEsize == 24      \* the small element sizes asked of create are 0 .. MaxEsize

\* --------------------------------------------------------------- constants
FREEWORD == 1701147238
USEDWORD == 2147483647
ZEROWORD == 0
\* an indeterminate word: memory the backend handed out and nobody wrote
JUNKWORD == -1

ALLOW_ITER == "BLI_MEMPOOL_ALLOW_ITER"
Flags == {{}, {ALLOW_ITER}}

NULL == <<0, 0>>
\* an indeterminate pointer (the link word of memory nobody wrote)
WILD == <<-1, -1>>

ChunkAddrs == 1 .. MaxSlots

\* sizes of the build: an LP64 target (8 byte pointers, 4 byte int)
SizeofPtr == 8
SizeofInt == 4
IntBits == 32
MEMPOOL_ELEM_SIZE_MIN == SizeofPtr * 2
\* struct BLI_freenode {next; freeword;}, padded to the pointer's alignment
SizeofFreenode == ((SizeofPtr + SizeofInt + SizeofPtr - 1) \div SizeofPtr) * SizeofPtr

\* the int type: IntBits wide, two's complement
INT_MAX == (2 ^ (IntBits - 2) - 1) * 2 + 1
INT_MIN == (- INT_MAX) - 1

\* x * n in int overflows (x >= 0, n >= 1)
int_overflows(x, n) == x > INT_MAX \div n

\* x + y in int where the sum wraps around on overflow
int_add(x, y) ==
    IF x >= 0 /\ y >= 0 /\ y > INT_MAX - x THEN (x + INT_MIN) + (y + INT_MIN)
    ELSE IF x < 0 /\ y < 0 /\ y < INT_MIN - x THEN (x - INT_MIN) + (y - INT_MIN)
    ELSE x + y

\* x * n in int where the product wraps around on overflow (n >= 0)
RECURSIVE int_mul(_, _)
int_mul(x, n) == IF n = 0 THEN 0 ELSE int_add(int_mul(x, n - 1), x)

MAX2(a, b) == IF a > b THEN a ELSE b

Range(s) == {s[i] : i \in DOMAIN s}

VARIABLES
    pool,       \* struct BLI_mempool: chunks, pchunk, flag, free, totused
    mem,        \* the element memory of every chunk address
    heap,       \* chunk addresses the backend currently has allocated
    alive,      \* the pool handle exists (FALSE after BLI_mempool_destroy)
    totelem,    \* the estimate BLI_mempool_create was given
    asked,      \* the element size BLI_mempool_create was given
    live,       \* the caller's references: returned by alloc, not yet freed
    op,         \* the last call made on the pool
    ret,        \* the address the last call returned (NULL when none)
    got,        \* chunk addresses the last call obtained from the backend
    gone,       \* chunk addresses the last call gave back to the backend
    net,        \* allocations minus frees performed since create or clear
    round,      \* addresses alloc returned since the count last left zero
    drained,    \* after an alloc on a pool that frees had drained: the
                \* addresses of the drained round (else {})
    iter,       \* struct BLI_mempool_iter: curchunk, curindex
    hist,       \* fresh: no free and no clear since create; refs: what the
                \* allocs returned since create, in call order, while fresh
    out,        \* the caller's buffer when the last call was a table or
                \* array call: what the call has stored in it (else <<>>)
    walk        \* an iteration the caller follows: on, it has begun; stay,
                \* the elements live since it began; yielded, what its
                \* steps returned, in order; done, a step has returned NULL;
                \* frees, the frees called since it began

vars == <<pool, mem, heap, got, gone, alive, totelem, asked, live, op, ret,
          net,
          round, drained, iter, hist, out, walk>>

AllowIter(p) == ALLOW_ITER \in p.flag

Slots(pc) == ChunkAddrs \X (0 .. (pc - 1))

\* the two words of an element nobody has written
JunkNode == [next |-> WILD, freeword |-> JUNKWORD]

\* These are the calls as a debug build runs them: a BLI_assert whose
\* condition is false stops the call there (asserted), before the statements
\* after it.
\* BLI_assert(a): TRUE when the assertion trips
BLI_assert(a) == ~a

\* ------------------------------------------------------------ the backend
\* BLI_addtail on the chunk list
BLI_addtail(list, link) == Append(list, link)

\* BLI_remlink on the chunk list
BLI_remlink(list, link) ==
    LET keep == {i \in DOMAIN list : list[i] # link}
        F[i \in 0 .. Len(list)] ==
            IF i = 0 THEN <<>>
            ELSE IF i \in keep THEN Append(F[i - 1], list[i]) ELSE F[i - 1]
    IN F[Len(list)]

\* A world is what the code works on: [pool, mem, heap, got, gone]; got and
\* gone log the traffic with the backend.
\* mempool_chunk_alloc: the backend hands out the chunk address c
mempool_chunk_alloc(w, c) ==
    [w EXCEPT !.heap = w.heap \cup {c}, !.got = w.got \cup {c}]

\* mempool_chunk_add linking the chunk at the head of the chunk list
mempool_chunk_add_head(w, c, lasttail) ==
    LET p == w.pool
        pchunk_last == p.pchunk - 1
        free1 == IF p.free = NULL THEN <<c, 0>> ELSE p.free
        mem2 == [a \in DOMAIN w.mem |->
                    IF a[1] = c
                    THEN [next |-> IF a[2] = pchunk_last THEN NULL
                                   ELSE <<c, a[2] + 1>>,
                          freeword |-> IF AllowIter(p) THEN FREEWORD
                                       ELSE w.mem[a].freeword]
                    ELSE w.mem[a]]
        mem3 == IF lasttail # NULL
                THEN [mem2 EXCEPT ![lasttail] =
                        [next |-> <<c, 0>>,
                         freeword |-> IF AllowIter(p) THEN FREEWORD
                                      ELSE mem2[lasttail].freeword]]
                ELSE mem2
    IN [w |-> [w EXCEPT !.pool.chunks = <<c>> \o p.chunks,
                        !.pool.free = free1,
                        !.mem = mem3],
        curnode |-> <<c, pchunk_last>>]

\* mempool_chunk_add with the link from lasttail to the new chunk left out
mempool_chunk_add_nolasttail(w, c, lasttail) ==
    LET p == w.pool
        pchunk_last == p.pchunk - 1
        chunks1 == BLI_addtail(p.chunks, c)
        free1 == IF p.free = NULL THEN <<c, 0>> ELSE p.free
        mem2 == [a \in DOMAIN w.mem |->
                    IF a[1] = c
                    THEN [next |-> IF a[2] = pchunk_last THEN NULL
                                   ELSE <<c, a[2] + 1>>,
                          freeword |-> IF AllowIter(p) THEN FREEWORD
                                       ELSE w.mem[a].freeword]
                    ELSE w.mem[a]]
    IN [w |-> [w EXCEPT !.pool.chunks = chunks1,
                        !.pool.free = free1,
                        !.mem = mem2],
        curnode |-> <<c, pchunk_last>>]

\* mempool_chunk_add: link chunk c at the tail of the chunk list and thread
\* its slots; returns the world and curnode, the chunk's last element
mempool_chunk_add(w, c, lasttail) ==
    LET p == w.pool
        pchunk_last == p.pchunk - 1
        chunks1 == BLI_addtail(p.chunks, c)
        free1 == IF p.free = NULL THEN <<c, 0>> ELSE p.free
        mem1 == IF p.free = NULL /\ AllowIter(p)
                THEN [w.mem EXCEPT ![<<c, 0>>].freeword = FREEWORD]
                ELSE w.mem
        mem2 == [a \in DOMAIN mem1 |->
                    IF a[1] = c
                    THEN [next |-> IF a[2] = pchunk_last THEN NULL
                                   ELSE <<c, a[2] + 1>>,
                          freeword |-> IF AllowIter(p) THEN FREEWORD
                                       ELSE mem1[a].freeword]
                    ELSE mem1[a]]
        mem3 == IF lasttail # NULL
                THEN [mem2 EXCEPT ![lasttail] =
                        [next |-> <<c, 0>>,
                         freeword |-> IF AllowIter(p) THEN FREEWORD
                                      ELSE mem2[lasttail].freeword]]
                ELSE mem2
    IN [w |-> [w EXCEPT !.pool.chunks = chunks1,
                        !.pool.free = free1,
                        !.mem = mem3],
        curnode |-> <<c, pchunk_last>>]

\* mempool_chunk_free_all: give every chunk of the list back to the backend;
\* what the released memory holds afterwards is indeterminate
mempool_chunk_free_all(w) ==
    LET all == Range(w.pool.chunks)
    IN [w EXCEPT !.heap = w.heap \ all,
                 !.gone = w.gone \cup all,
                 !.pool.chunks = <<>>,
                 !.mem = [a \in DOMAIN w.mem |->
                            IF a[1] \in all THEN JunkNode ELSE w.mem[a]]]

\* the number of chunks BLI_mempool_create allocates
maxchunks(te, pc) ==
    LET m == (te \div pc) + 1
    IN IF m = 0 THEN 1 ELSE m

\* the loop of BLI_mempool_create over the chunk addresses cs
RECURSIVE create_chunks(_, _, _, _)
create_chunks(w, cs, i, lasttail) ==
    IF i > Len(cs) THEN w
    ELSE LET r == mempool_chunk_add(mempool_chunk_alloc(w, cs[i]), cs[i], lasttail)
         IN create_chunks(r.w, cs, i + 1, r.curnode)

\* BLI_mempool_create(esize, totelem, pchunk, flag), the backend giving the
\* chunk addresses cs in this order
BLI_mempool_create(es, te, pc, fl, cs) ==
    LET esize == IF es < MEMPOOL_ELEM_SIZE_MIN THEN MEMPOOL_ELEM_SIZE_MIN
                 ELSE es
        w0 == [pool |-> [chunks |-> <<>>,
                         esize |-> IF ALLOW_ITER \in fl
                                   THEN MAX2(esize, SizeofFreenode)
                                   ELSE esize,
                         csize |-> int_mul(esize, pc),
                         pchunk |-> pc, flag |-> fl,
                         free |-> NULL, totused |-> 0],
               mem |-> [a \in Slots(pc) |-> JunkNode],
               heap |-> {}, got |-> {}, gone |-> {}]
    IN create_chunks(w0, cs, 1, NULL)

\* BLI_mempool_alloc with the pop of the free list's head left out
BLI_mempool_alloc_nopop(w, c) ==
    LET w1 == [w EXCEPT !.pool.totused = w.pool.totused + 1]
        w2 == IF w1.pool.free = NULL
              THEN mempool_chunk_add(mempool_chunk_alloc(w1, c), c, NULL).w
              ELSE w1
        retval == w2.pool.free
    IN [w |-> IF AllowIter(w2.pool)
              THEN [w2 EXCEPT !.mem[retval].freeword = USEDWORD]
              ELSE w2,
        retval |-> retval]

\* BLI_mempool_alloc with the write of the in-use tag left out
BLI_mempool_alloc_notag(w, c) ==
    LET w1 == [w EXCEPT !.pool.totused = w.pool.totused + 1]
        w2 == IF w1.pool.free = NULL
              THEN mempool_chunk_add(mempool_chunk_alloc(w1, c), c, NULL).w
              ELSE w1
        retval == w2.pool.free
    IN [w |-> [w2 EXCEPT !.pool.free = w2.mem[retval].next],
        retval |-> retval]

\* BLI_mempool_alloc; c is the address the backend gives if a chunk is needed
BLI_mempool_alloc(w, c) ==
    LET w1 == [w EXCEPT !.pool.totused = w.pool.totused + 1]
        w2 == IF w1.pool.free = NULL
              THEN mempool_chunk_add(mempool_chunk_alloc(w1, c), c, NULL).w
              ELSE w1
        retval == w2.pool.free
        mem3 == IF AllowIter(w2.pool)
                THEN [w2.mem EXCEPT ![retval].freeword = USEDWORD]
                ELSE w2.mem
    IN [w |-> [w2 EXCEPT !.mem = mem3, !.pool.free = mem3[retval].next],
        retval |-> retval]

\* BLI_mempool_calloc: alloc, then memset of the element to zero
BLI_mempool_calloc(w, c) ==
    LET r == BLI_mempool_alloc(w, c)
    IN [w |-> [r.w EXCEPT !.mem[r.retval] =
                    [next |-> NULL, freeword |-> ZEROWORD]],
        retval |-> r.retval]

\* the shrink with the loop that re-threads the first chunk left out
mempool_shrink_nothread(w) ==
    LET first == w.pool.chunks[1]
        w1 == [w EXCEPT !.pool.chunks = BLI_remlink(w.pool.chunks, first)]
        w2 == mempool_chunk_free_all(w1)
    IN [w2 EXCEPT !.pool.chunks = BLI_addtail(w2.pool.chunks, first),
                  !.pool.free = <<first, 0>>]

\* the shrink with mempool_chunk_free_all left out
mempool_shrink_keepall(w) ==
    LET first == w.pool.chunks[1]
        w1 == [w EXCEPT !.pool.chunks = BLI_remlink(w.pool.chunks, first)]
        w3 == [w1 EXCEPT !.pool.chunks = BLI_addtail(w1.pool.chunks, first),
                         !.pool.free = <<first, 0>>]
    IN [w3 EXCEPT !.mem = [a \in DOMAIN w3.mem |->
            IF a[1] = first
            THEN [w3.mem[a] EXCEPT !.next =
                    IF a[2] = w.pool.pchunk - 1 THEN NULL
                    ELSE <<first, a[2] + 1>>]
            ELSE w3.mem[a]]]

\* the shrink keeping chunks.last where the code keeps chunks.first
mempool_shrink_keeplast(w) ==
    LET first == w.pool.chunks[Len(w.pool.chunks)]
        w1 == [w EXCEPT !.pool.chunks = BLI_remlink(w.pool.chunks, first)]
        w2 == mempool_chunk_free_all(w1)
        w3 == [w2 EXCEPT !.pool.chunks = BLI_addtail(w2.pool.chunks, first),
                         !.pool.free = <<first, 0>>]
    IN [w3 EXCEPT !.mem = [a \in DOMAIN w3.mem |->
            IF a[1] = first
            THEN [w3.mem[a] EXCEPT !.next =
                    IF a[2] = w.pool.pchunk - 1 THEN NULL
                    ELSE <<first, a[2] + 1>>]
            ELSE w3.mem[a]]]

\* the shrink with BLI_remlink left out: the first chunk is released too
mempool_shrink_noremlink(w) ==
    LET first == w.pool.chunks[1]
        w2 == mempool_chunk_free_all(w)
        w3 == [w2 EXCEPT !.pool.chunks = BLI_addtail(w2.pool.chunks, first),
                         !.pool.free = <<first, 0>>]
    IN [w3 EXCEPT !.mem = [a \in DOMAIN w3.mem |->
            IF a[1] = first
            THEN [w3.mem[a] EXCEPT !.next =
                    IF a[2] = w.pool.pchunk - 1 THEN NULL
                    ELSE <<first, a[2] + 1>>]
            ELSE w3.mem[a]]]

\* the shrink threading the first chunk from its last slot down
mempool_shrink_fromlast(w) ==
    LET first == w.pool.chunks[1]
        w1 == [w EXCEPT !.pool.chunks = BLI_remlink(w.pool.chunks, first)]
        w2 == mempool_chunk_free_all(w1)
        w3 == [w2 EXCEPT !.pool.chunks = BLI_addtail(w2.pool.chunks, first),
                         !.pool.free = <<first, w.pool.pchunk - 1>>]
    IN [w3 EXCEPT !.mem = [a \in DOMAIN w3.mem |->
            IF a[1] = first
            THEN [w3.mem[a] EXCEPT !.next =
                    IF a[2] = 0 THEN NULL
                    ELSE <<first, a[2] - 1>>]
            ELSE w3.mem[a]]]

\* the shrink of BLI_mempool_free: keep the first chunk only and re-thread it
mempool_shrink(w) ==
    LET first == w.pool.chunks[1]
        w1 == [w EXCEPT !.pool.chunks = BLI_remlink(w.pool.chunks, first)]
        w2 == mempool_chunk_free_all(w1)
        w3 == [w2 EXCEPT !.pool.chunks = BLI_addtail(w2.pool.chunks, first),
                         !.pool.free = <<first, 0>>]
    IN [w3 EXCEPT !.mem = [a \in DOMAIN w3.mem |->
            IF a[1] = first
            THEN [w3.mem[a] EXCEPT !.next =
                    IF a[2] = w.pool.pchunk - 1 THEN NULL
                    ELSE <<first, a[2] + 1>>]
            ELSE w3.mem[a]]]

\* BLI_mempool_free with the decrement of totused left out
BLI_mempool_free_nodec(w, addr) ==
    LET mem1 == IF AllowIter(w.pool)
                THEN [w.mem EXCEPT ![addr].freeword = FREEWORD]
                ELSE w.mem
        mem2 == [mem1 EXCEPT ![addr].next = w.pool.free]
    IN [w EXCEPT !.mem = mem2, !.pool.free = addr]

\* BLI_mempool_free with the write of the free tag left out
BLI_mempool_free_notag(w, addr) ==
    LET mem2 == [w.mem EXCEPT ![addr].next = w.pool.free]
        w1 == [w EXCEPT !.mem = mem2,
                        !.pool.free = addr,
                        !.pool.totused = w.pool.totused - 1]
    IN IF w1.pool.totused = 0 THEN mempool_shrink(w1) ELSE w1

\* BLI_mempool_free shrinking the pool while one element is still in use
BLI_mempool_free_shrinkearly(w, addr) ==
    LET mem1 == IF AllowIter(w.pool)
                THEN [w.mem EXCEPT ![addr].freeword = FREEWORD]
                ELSE w.mem
        mem2 == [mem1 EXCEPT ![addr].next = w.pool.free]
        w1 == [w EXCEPT !.mem = mem2,
                        !.pool.free = addr,
                        !.pool.totused = w.pool.totused - 1]
    IN IF w1.pool.totused <= 1 THEN mempool_shrink(w1) ELSE w1

\* BLI_mempool_free linking the element behind the head of the free list
BLI_mempool_free_behind(w, addr) ==
    LET head == w.pool.free
        mem1 == IF AllowIter(w.pool)
                THEN [w.mem EXCEPT ![addr].freeword = FREEWORD]
                ELSE w.mem
        mem2 == IF head = NULL
                THEN [mem1 EXCEPT ![addr].next = NULL]
                ELSE [mem1 EXCEPT ![addr].next = mem1[head].next,
                                  ![head].next = addr]
        w1 == [w EXCEPT !.mem = mem2,
                        !.pool.free = IF head = NULL THEN addr ELSE head,
                        !.pool.totused = w.pool.totused - 1]
    IN IF w1.pool.totused = 0 THEN mempool_shrink(w1) ELSE w1

\* BLI_mempool_free of a reference the caller holds
BLI_mempool_free(w, addr) ==
    LET mem1 == IF AllowIter(w.pool)
                THEN [w.mem EXCEPT ![addr].freeword = FREEWORD]
                ELSE w.mem
        mem2 == [mem1 EXCEPT ![addr].next = w.pool.free]
        w1 == [w EXCEPT !.mem = mem2,
                        !.pool.free = addr,
                        !.pool.totused = w.pool.totused - 1]
    IN IF w1.pool.totused = 0 THEN mempool_shrink(w1) ELSE w1

\* ARRAY_HAS_ITEM(arr_item, arr_start, tot) on the byte offset
\* arr_item - arr_start: the offset, taken as unsigned, is below tot
ARRAY_HAS_ITEM(off, tot) == off >= 0 /\ off < tot

\* the scan starting at the second chunk of the list
mempool_free_found_skipfirst(w, addr) ==
    \E i \in DOMAIN w.pool.chunks :
        /\ i > 1
        /\ addr[1] = w.pool.chunks[i]
        /\ ARRAY_HAS_ITEM(addr[2] * w.pool.esize, w.pool.csize)

\* the debug scan of BLI_mempool_free: addr lies in the data of a chunk of
\* the chunk list
mempool_free_found(w, addr) ==
    \E i \in DOMAIN w.pool.chunks :
        /\ addr[1] = w.pool.chunks[i]
        /\ ARRAY_HAS_ITEM(addr[2] * w.pool.esize, w.pool.csize)

\* the assertion BLI_mempool_free(pool, addr) trips in a debug build, "none"
\* when it trips none
BLI_mempool_free_asserts(w, addr) ==
    IF BLI_assert(mempool_free_found(w, addr)) THEN "notinpool"
    ELSE IF AllowIter(w.pool) /\ BLI_assert(w.mem[addr].freeword # FREEWORD)
         THEN "doublefree"
         ELSE "none"

\* BLI_mempool_count
BLI_mempool_count(w) == w.pool.totused

\* BLI_mempool_clear with the reset of pool->free left out
BLI_mempool_clear_keepfree(w) ==
    LET first == w.pool.chunks[1]
        w1 == [w EXCEPT !.pool.chunks = BLI_remlink(w.pool.chunks, first)]
        w2 == mempool_chunk_free_all(w1)
        w3 == [w2 EXCEPT !.pool.totused = 0]
    IN mempool_chunk_add(w3, first, NULL).w

\* BLI_mempool_clear
BLI_mempool_clear(w) ==
    LET first == w.pool.chunks[1]
        w1 == [w EXCEPT !.pool.chunks = BLI_remlink(w.pool.chunks, first)]
        w2 == mempool_chunk_free_all(w1)
        w3 == [w2 EXCEPT !.pool.totused = 0, !.pool.free = NULL]
    IN mempool_chunk_add(w3, first, NULL).w

\* BLI_mempool_destroy
BLI_mempool_destroy(w) == mempool_chunk_free_all(w)

\* ------------------------------------------------------------- the iterator
\* struct BLI_mempool_iter before BLI_mempool_iternew has set it
NoIter == [pool |-> FALSE, curchunk |-> 0, curindex |-> 0]

\* no iteration is followed
NoWalk == [on |-> FALSE, stay |-> {}, yielded |-> <<>>, done |-> FALSE,
           frees |-> 0]

\* BLI_mempool_iternew
BLI_mempool_iternew(w) ==
    [pool |-> TRUE,
     curchunk |-> IF w.pool.chunks = <<>> THEN 0 ELSE w.pool.chunks[1],
     curindex |-> 0]

\* chunk->next in the pool's chunk list (0 is the NULL chunk)
chunk_next(w, c) ==
    LET at == {i \in DOMAIN w.pool.chunks : w.pool.chunks[i] = c}
        i == CHOOSE j \in at : TRUE
    IN IF at = {} \/ i = Len(w.pool.chunks) THEN 0 ELSE w.pool.chunks[i + 1]

\* What a step gives back: ret, the iterator it, and seen, the slots whose
\* tag word the step has read.
\* the loop with the test of the tag left out: it stops at the first slot
iterstep_loop_noskip(w, it) ==
    IF it.curchunk = 0 THEN [ret |-> NULL, it |-> it, seen |-> {}]
    ELSE [ret |-> <<it.curchunk, it.curindex>>,
          it |-> IF it.curindex + 1 >= w.pool.pchunk
                 THEN [it EXCEPT !.curindex = 0,
                                 !.curchunk = chunk_next(w, it.curchunk)]
                 ELSE [it EXCEPT !.curindex = it.curindex + 1],
          seen |-> {}]

\* the loop taking the slots of a chunk from its last one down
RECURSIVE iterstep_loop_reverse(_, _)
iterstep_loop_reverse(w, it) ==
    IF it.curchunk = 0 THEN [ret |-> NULL, it |-> it, seen |-> {}]
    ELSE LET r == <<it.curchunk, w.pool.pchunk - 1 - it.curindex>>
             it1 == IF it.curindex + 1 >= w.pool.pchunk
                    THEN [it EXCEPT !.curindex = 0,
                                    !.curchunk = chunk_next(w, it.curchunk)]
                    ELSE [it EXCEPT !.curindex = it.curindex + 1]
         IN IF w.mem[r].freeword = FREEWORD
            THEN [iterstep_loop_reverse(w, it1) EXCEPT !.seen = @ \cup {r}]
            ELSE [ret |-> r, it |-> it1, seen |-> {r}]

\* the loop leaving a chunk at its first free slot
RECURSIVE iterstep_loop_skipchunk(_, _)
iterstep_loop_skipchunk(w, it) ==
    IF it.curchunk = 0 THEN [ret |-> NULL, it |-> it, seen |-> {}]
    ELSE LET r == <<it.curchunk, it.curindex>>
             it1 == IF it.curindex + 1 >= w.pool.pchunk
                    THEN [it EXCEPT !.curindex = 0,
                                    !.curchunk = chunk_next(w, it.curchunk)]
                    ELSE [it EXCEPT !.curindex = it.curindex + 1]
             it2 == [it EXCEPT !.curindex = 0,
                               !.curchunk = chunk_next(w, it.curchunk)]
         IN IF w.mem[r].freeword = FREEWORD
            THEN [iterstep_loop_skipchunk(w, it2) EXCEPT !.seen = @ \cup {r}]
            ELSE [ret |-> r, it |-> it1, seen |-> {r}]

\* the do-while loop of BLI_mempool_iterstep
RECURSIVE iterstep_loop(_, _)
iterstep_loop(w, it) ==
    IF it.curchunk = 0 THEN [ret |-> NULL, it |-> it, seen |-> {}]
    ELSE LET r == <<it.curchunk, it.curindex>>
             it1 == IF it.curindex + 1 >= w.pool.pchunk
                    THEN [it EXCEPT !.curindex = 0,
                                    !.curchunk = chunk_next(w, it.curchunk)]
                    ELSE [it EXCEPT !.curindex = it.curindex + 1]
         IN IF w.mem[r].freeword = FREEWORD
            THEN [iterstep_loop(w, it1) EXCEPT !.seen = @ \cup {r}]
            ELSE [ret |-> r, it |-> it1, seen |-> {r}]

\* BLI_mempool_iterstep with the test of totused left out
BLI_mempool_iterstep_nocount(w, it) == iterstep_loop(w, it)

\* BLI_mempool_iterstep
BLI_mempool_iterstep(w, it) ==
    IF w.pool.totused = 0 THEN [ret |-> NULL, it |-> it, seen |-> {}]
    ELSE iterstep_loop(w, it)

\* ------------------------------------------------- the calls on an iterable pool
\* the for loop of BLI_mempool_findelem stepping one element too far
RECURSIVE findelem_loop_next(_, _, _)
findelem_loop_next(w, r, index) ==
    LET r1 == BLI_mempool_iterstep(w, r.it)
        r2 == [r1 EXCEPT !.seen = @ \cup r.seen]
    IN IF index = 0 THEN r2 ELSE findelem_loop_next(w, r2, index - 1)

\* the for loop of BLI_mempool_findelem: r is the step that gave elem
RECURSIVE findelem_loop(_, _, _)
findelem_loop(w, r, index) ==
    IF index = 0 THEN r
    ELSE LET r1 == BLI_mempool_iterstep(w, r.it)
         IN findelem_loop(w, [r1 EXCEPT !.seen = @ \cup r.seen], index - 1)

\* BLI_mempool_findelem(pool, index)
BLI_mempool_findelem(w, index) ==
    IF BLI_assert(AllowIter(w.pool))
    THEN [asserted |-> TRUE, elem |-> NULL, seen |-> {}]
    ELSE IF index >= 0 /\ index < w.pool.totused
         THEN LET r == findelem_loop(w, BLI_mempool_iterstep(w, BLI_mempool_iternew(w)),
                                     index)
              IN [asserted |-> FALSE, elem |-> r.ret, seen |-> r.seen]
         ELSE [asserted |-> FALSE, elem |-> NULL, seen |-> {}]

\* the while loop written as a do-while: the NULL that ends it is stored too
RECURSIVE as_table_loop_dowhile(_, _, _, _)
as_table_loop_dowhile(w, it, data, seen) ==
    LET r == BLI_mempool_iterstep(w, it)
    IN IF r.ret = NULL
       THEN [data |-> Append(data, r.ret), seen |-> seen \cup r.seen]
       ELSE as_table_loop_dowhile(w, r.it, Append(data, r.ret), seen \cup r.seen)

\* the while loop of BLI_mempool_as_table and BLI_mempool_as_array: data is
\* what has been stored through p so far, one entry per element
RECURSIVE as_table_loop(_, _, _, _)
as_table_loop(w, it, data, seen) ==
    LET r == BLI_mempool_iterstep(w, it)
    IN IF r.ret = NULL
       THEN [data |-> data, seen |-> seen \cup r.seen]
       ELSE as_table_loop(w, r.it, Append(data, r.ret), seen \cup r.seen)

\* BLI_mempool_as_table with the assertion on the flag left out
BLI_mempool_as_table_noflag(w) ==
    LET l == as_table_loop(w, BLI_mempool_iternew(w), <<>>, {})
    IN [asserted |-> BLI_assert(Len(l.data) = w.pool.totused),
        data |-> l.data, seen |-> l.seen]

\* BLI_mempool_as_table(pool, data): data holds the references stored
BLI_mempool_as_table(w) ==
    IF BLI_assert(AllowIter(w.pool))
    THEN [asserted |-> TRUE, data |-> <<>>, seen |-> {}]
    ELSE LET l == as_table_loop(w, BLI_mempool_iternew(w), <<>>, {})
         IN [asserted |-> BLI_assert(Len(l.data) = w.pool.totused),
             data |-> l.data, seen |-> l.seen]

\* BLI_mempool_as_tableN: size is the byte size of the table it allocates
BLI_mempool_as_tableN(w) ==
    [size |-> w.pool.totused * SizeofPtr, table |-> BLI_mempool_as_table(w)]

\* BLI_mempool_as_array(pool, data): data holds the elements copied, esize
\* bytes each, and bytes is p - data
BLI_mempool_as_array(w) ==
    IF BLI_assert(AllowIter(w.pool))
    THEN [asserted |-> TRUE, data |-> <<>>, bytes |-> 0, seen |-> {}]
    ELSE LET l == as_table_loop(w, BLI_mempool_iternew(w), <<>>, {})
             bytes == Len(l.data) * w.pool.esize
         IN [asserted |-> BLI_assert(bytes = w.pool.totused * w.pool.esize),
             data |-> l.data, bytes |-> bytes, seen |-> l.seen]

\* BLI_mempool_as_arrayN: size is the byte size of the array it allocates
BLI_mempool_as_arrayN(w) ==
    [size |-> w.pool.totused * w.pool.esize, array |-> BLI_mempool_as_array(w)]

\* ---------------------------------------------------------------- actions
\* the world a call starts in: its backend log is empty
World == [pool |-> pool, mem |-> mem, heap |-> heap, got |-> {}, gone |-> {}]

SetWorld(w) ==
    /\ pool' = w.pool
    /\ mem' = w.mem
    /\ heap' = w.heap
    /\ got' = w.got
    /\ gone' = w.gone

\* The backend is first fit: it hands out the lowest chunk address it has
\* not currently allocated (so a released address is handed out again).
backend_alloc(h) == CHOOSE c \in ChunkAddrs \ h : \A d \in ChunkAddrs \ h : c <= d

\* the addresses of n chunks allocated in a row from an empty backend
AddrSeq(n) == [i \in 1 .. n |-> i]

Init ==
    \E te \in 0 .. MaxTotelem, pc \in 1 .. MaxPchunk, fl \in Flags :
        /\ maxchunks(te, pc) * pc <= MaxSlots
        /\ LET cs == AddrSeq(maxchunks(te, pc))
               w == BLI_mempool_create(ElemSize, te, pc, fl, cs)
           IN /\ pool = w.pool
              /\ mem = w.mem
              /\ heap = w.heap
              /\ got = w.got
              /\ gone = w.gone
        /\ totelem = te
        /\ asked = ElemSize
        /\ alive = TRUE
        /\ live = {}
        /\ op = "create"
        /\ ret = NULL
        /\ net = 0
        /\ round = {}
        /\ drained = {}
        /\ iter = NoIter
        /\ hist = [fresh |-> TRUE, refs |-> <<>>]
        /\ out = <<>>
        /\ walk = NoWalk

\* the history once a free, a clear or a destroy has been called
NoHist == [fresh |-> FALSE, refs |-> <<>>]

\* the chunk addresses the backend may hand out to a call that needs one
Fresh == IF pool.free = NULL THEN {backend_alloc(heap)} ELSE {0}

CanAlloc ==
    /\ alive
    /\ pool.free = NULL => (Len(pool.chunks) + 1) * pool.pchunk <= MaxSlots

\* The element is handed over raw and is the caller's from then on: the pool
\* must not rely on its link word, which the model holds as indeterminate, and
\* without ALLOW_ITER the same goes for the word the tag would be in.
Loaned(w, addr) ==
    [w EXCEPT !.mem[addr] =
        [next |-> WILD,
         freeword |-> IF AllowIter(w.pool) THEN w.mem[addr].freeword
                      ELSE JUNKWORD]]

AllocDone(r, name) ==
    /\ SetWorld(Loaned(r.w, r.retval))
    /\ live' = live \cup {r.retval}
    /\ op' = name
    /\ ret' = r.retval
    /\ net' = net + 1
    /\ round' = IF pool.totused = 0 THEN {r.retval} ELSE round \cup {r.retval}
    /\ drained' = IF pool.totused = 0 THEN round ELSE {}
    /\ hist' = IF hist.fresh THEN [hist EXCEPT !.refs = Append(@, r.retval)]
               ELSE hist
    /\ out' = <<>>
    /\ UNCHANGED <<alive, totelem, asked, iter, walk>>

Alloc ==
    /\ CanAlloc
    /\ \E c \in Fresh : AllocDone(BLI_mempool_alloc(World, c), "alloc")

\* The caller keeps at most one zeroed element at a time.
Calloc ==
    /\ CanAlloc
    /\ \A a \in live : mem[a].freeword # ZEROWORD
    /\ \E c \in Fresh : AllocDone(BLI_mempool_calloc(World, c), "calloc")

\* BLI_mempool_free(pool, addr) with its assertions passed; h is the history
\* the caller keeps from then on, k what it keeps of the iteration it follows
FreeAddrHW(addr, h, k) ==
    /\ SetWorld(BLI_mempool_free(World, addr))
    /\ live' = live \ {addr}
    /\ op' = "free"
    /\ ret' = NULL
    /\ net' = net - 1
    /\ drained' = {}
    /\ hist' = h
    /\ out' = <<>>
    /\ walk' = k
    /\ UNCHANGED <<alive, totelem, asked, round, iter>>

FreeAddrH(addr, h) == FreeAddrHW(addr, h, walk)

FreeAddr(addr) == FreeAddrH(addr, NoHist)

Free ==
    /\ alive
    /\ \E addr \in live : FreeAddr(addr)

Clear ==
    /\ alive
    /\ SetWorld(BLI_mempool_clear(World))
    /\ live' = {}
    /\ op' = "clear"
    /\ ret' = NULL
    /\ net' = 0
    /\ round' = {}
    /\ drained' = {}
    /\ hist' = NoHist
    /\ out' = <<>>
    /\ UNCHANGED <<alive, totelem, asked, iter, walk>>

Destroy ==
    /\ alive
    /\ SetWorld(BLI_mempool_destroy(World))
    /\ alive' = FALSE
    /\ live' = {}
    /\ op' = "destroy"
    /\ ret' = NULL
    /\ net' = 0
    /\ round' = {}
    /\ drained' = {}
    /\ hist' = NoHist
    /\ out' = <<>>
    /\ UNCHANGED <<totelem, asked, iter, walk>>

\* BLI_mempool_iternew asserts ALLOW_ITER
IterNew ==
    /\ alive
    /\ AllowIter(pool)
    /\ iter' = BLI_mempool_iternew(World)
    /\ op' = "iternew"
    /\ ret' = NULL
    /\ UNCHANGED <<pool, mem, heap, alive, totelem, asked, live, net, round, drained,
                   hist, out, walk>>
    /\ got' = {}
    /\ gone' = {}

\* A step of an iterator whose chunk the pool still owns (what a step reads
\* through a released chunk is left out here).
IterStep ==
    /\ alive
    /\ iter.pool
    /\ iter.curchunk \in Range(pool.chunks) \cup {0}
    /\ LET r == BLI_mempool_iterstep(World, iter)
       IN /\ iter' = r.it
          /\ ret' = r.ret
    /\ op' = "iterstep"
    /\ UNCHANGED <<pool, mem, heap, alive, totelem, asked, live, net, round, drained,
                   hist, out, walk>>
    /\ got' = {}
    /\ gone' = {}

Next == Alloc \/ Calloc \/ Free \/ Clear \/ Destroy \/ IterNew \/ IterStep

Spec == Init /\ [][Next]_vars

\* ------------------------------------------------------- the debug build
\* every address a caller can make up: the slots of every chunk address and
\* the address one past the last slot of each
AllAddrs == ChunkAddrs \X (0 .. pool.pchunk)

\* the indexes tried on BLI_mempool_findelem: from one below the range of the
\* live count to one above it
Indexes == -1 .. (pool.totused + 1)

\* a tripped assertion aborts the process: the pool is left as it was and no
\* call follows
Abort(name, addr) ==
    /\ alive' = FALSE
    /\ op' = name
    /\ ret' = addr
    /\ got' = {}
    /\ gone' = {}
    /\ out' = <<>>
    /\ UNCHANGED <<pool, mem, heap, totelem, asked, live, net, round, drained, iter,
                   hist, walk>>

\* a call that only reads the pool has returned
Queried(name, elem, data) ==
    /\ op' = name
    /\ ret' = elem
    /\ out' = data
    /\ got' = {}
    /\ gone' = {}
    /\ UNCHANGED <<pool, mem, heap, alive, totelem, asked, live, net, round, drained,
                   iter, hist, walk>>

FreeChecked(addr) ==
    LET a == BLI_mempool_free_asserts(World, addr)
    IN IF a = "none" THEN FreeAddr(addr) ELSE Abort(a, addr)

\* a free of a reference the caller holds
FreeLive ==
    /\ alive
    /\ \E addr \in live : FreeChecked(addr)

\* a second free of a reference of this round that is already freed
FreeAgain ==
    /\ alive
    /\ AllowIter(pool)
    /\ \E addr \in round \ live : FreeChecked(addr)

\* a free of an address outside the data of every chunk of the pool
FreeOutside ==
    /\ alive
    /\ \E addr \in AllAddrs :
        /\ ~ (addr[1] \in Range(pool.chunks) /\ addr[2] < pool.pchunk)
        /\ FreeChecked(addr)

FindElem ==
    /\ alive
    /\ \E index \in Indexes :
        LET r == BLI_mempool_findelem(World, index)
        IN IF r.asserted THEN Abort("findelem_assert", NULL)
           ELSE Queried("findelem", r.elem, out)

AsTable ==
    /\ alive
    /\ LET r == BLI_mempool_as_table(World)
       IN IF r.asserted THEN Abort("as_table_assert", NULL)
          ELSE Queried("as_table", NULL, r.data)

AsTableN ==
    /\ alive
    /\ LET r == BLI_mempool_as_tableN(World)
       IN IF r.table.asserted THEN Abort("as_tableN_assert", NULL)
          ELSE Queried("as_tableN", NULL, r.table.data)

AsArray ==
    /\ alive
    /\ LET r == BLI_mempool_as_array(World)
       IN IF r.asserted THEN Abort("as_array_assert", NULL)
          ELSE Queried("as_array", NULL, r.data)

AsArrayN ==
    /\ alive
    /\ LET r == BLI_mempool_as_arrayN(World)
       IN IF r.array.asserted THEN Abort("as_arrayN_assert", NULL)
          ELSE Queried("as_arrayN", NULL, r.array.data)

\* BLI_mempool_iternew on a pool without ALLOW_ITER
IterNewAssert ==
    /\ alive
    /\ BLI_assert(AllowIter(pool))
    /\ Abort("iternew_assert", NULL)

\* the calls that read an iterable pool, among the calls that change it
NextQuery ==
    \/ Alloc \/ Free \/ Clear \/ Destroy
    \/ FindElem \/ AsTable \/ AsTableN \/ AsArray \/ AsArrayN \/ IterNewAssert

SpecQuery == Init /\ [][NextQuery]_vars

\* frees of any address, checked as the debug build checks them
NextDebug == Alloc \/ FreeLive \/ FreeAgain \/ FreeOutside \/ Clear \/ Destroy

SpecDebug == Init /\ [][NextDebug]_vars

\* ------------------------------------------------------------ the scenario
\* create with ALLOW_ITER; ScAllocs allocs; free of the 2nd and the 4th
\* element allocated; iteration; free of the rest. hist.refs keeps the
\* references in the order alloc returned them, through the frees.
ScInit ==
    /\ LET cs == AddrSeq(maxchunks(ScTotelem, ScPchunk))
           w == BLI_mempool_create(ElemSize, ScTotelem, ScPchunk, {ALLOW_ITER}, cs)
       IN /\ pool = w.pool
          /\ mem = w.mem
          /\ heap = w.heap
          /\ got = w.got
          /\ gone = w.gone
    /\ totelem = ScTotelem
    /\ asked = ElemSize
    /\ alive = TRUE
    /\ live = {}
    /\ op = "create"
    /\ ret = NULL
    /\ net = 0
    /\ round = {}
    /\ drained = {}
    /\ iter = NoIter
    /\ hist = [fresh |-> TRUE, refs |-> <<>>]
    /\ out = <<>>
    /\ walk = NoWalk

\* the two elements the scenario frees first
ScPair == {hist.refs[2], hist.refs[4]}

ScAlloc ==
    /\ alive
    /\ hist.fresh
    /\ Len(hist.refs) < ScAllocs
    /\ \E c \in Fresh : AllocDone(BLI_mempool_alloc(World, c), "alloc")

ScFreePair ==
    /\ alive
    /\ Len(hist.refs) = ScAllocs
    /\ \E addr \in ScPair \cap live :
            FreeAddrH(addr, [hist EXCEPT !.fresh = FALSE])

ScIterNew ==
    /\ Len(hist.refs) = ScAllocs
    /\ ScPair \cap live = {}
    /\ IterNew

ScIterStep ==
    /\ Len(hist.refs) = ScAllocs
    /\ IterStep

ScFreeRest ==
    /\ alive
    /\ Len(hist.refs) = ScAllocs
    /\ ScPair \cap live = {}
    /\ \E addr \in live : FreeAddrH(addr, hist)

NextScenario == ScAlloc \/ ScFreePair \/ ScIterNew \/ ScIterStep \/ ScFreeRest

SpecScenario == ScInit /\ [][NextScenario]_vars

\* ------------------------------------------- an iteration among allocs and frees
\* A fresh pool is filled, then one iterator is stepped while alloc and free
\* are called on its pool; the frees never take the last live element. walk keeps what the iteration
\* has returned and which elements have been live all along.
ItFill ==
    /\ ~ walk.on
    /\ Alloc

ItNew ==
    /\ alive
    /\ AllowIter(pool)
    /\ ~ walk.on
    /\ pool.totused > 0
    /\ iter' = BLI_mempool_iternew(World)
    /\ walk' = [on |-> TRUE, stay |-> live, yielded |-> <<>>, done |-> FALSE,
                frees |-> 0]
    /\ op' = "iternew"
    /\ ret' = NULL
    /\ got' = {}
    /\ gone' = {}
    /\ UNCHANGED <<pool, mem, heap, alive, totelem, asked, live, net, round, drained,
                   hist, out>>

ItStep ==
    /\ alive
    /\ walk.on
    /\ ~ walk.done
    /\ LET r == BLI_mempool_iterstep(World, iter)
       IN /\ iter' = r.it
          /\ ret' = r.ret
          /\ walk' = [walk EXCEPT
                        !.yielded = IF r.ret = NULL THEN @ ELSE Append(@, r.ret),
                        !.done = (r.ret = NULL)]
    /\ op' = "iterstep"
    /\ got' = {}
    /\ gone' = {}
    /\ UNCHANGED <<pool, mem, heap, alive, totelem, asked, live, net, round, drained,
                   hist, out>>

ItAlloc ==
    /\ walk.on
    /\ ~ walk.done
    /\ Alloc

ItFree ==
    /\ alive
    /\ walk.on
    /\ ~ walk.done
    /\ walk.frees < MaxWalkFrees
    /\ pool.totused > 1
    /\ \E addr \in live :
            FreeAddrHW(addr, NoHist, [walk EXCEPT !.stay = @ \ {addr},
                                                  !.frees = @ + 1])

NextIter == ItFill \/ ItNew \/ ItStep \/ ItAlloc \/ ItFree

SpecIter == Init /\ [][NextIter]_vars

\* ------------------------------------------------------- reading the state
\* the elements of the chunks the pool owns
OwnedSlots(w) == Range(w.pool.chunks) \X (0 .. (w.pool.pchunk - 1))

\* Follow the links from p: the addresses met up to NULL, and ok = FALSE when
\* the walk leaves the owned chunks (a wild or dangling link) or meets an
\* address twice (a cycle).
RECURSIVE free_walk(_, _, _)
free_walk(w, p, acc) ==
    IF p = NULL THEN [seq |-> acc, ok |-> TRUE]
    ELSE IF p \notin OwnedSlots(w) \/ p \in Range(acc)
         THEN [seq |-> acc, ok |-> FALSE]
         ELSE free_walk(w, w.mem[p].next, Append(acc, p))

\* the free list of the pool
FreeList(w) == free_walk(w, w.pool.free, <<>>)

\* what a fresh iterator yields when stepped until it returns NULL
RECURSIVE iterate(_, _, _)
iterate(w, it, acc) ==
    LET r == BLI_mempool_iterstep(w, it)
    IN IF r.ret = NULL THEN acc ELSE iterate(w, r.it, Append(acc, r.ret))

FreshIteration(w) == iterate(w, BLI_mempool_iternew(w), <<>>)

\* ------------------------------------------------------------------ claims
\* C1: after every alloc and free, across chunk growth and shrink, count()
\* is the number of allocations performed minus the number of frees
\* performed (net, counted since the pool was created or last cleared).
C1_CountIsAllocsMinusFrees ==
    alive => BLI_mempool_count(World) = net

C1_Witness ==
    /\ op = "free"
    /\ gone # {}
    /\ net = 0
    /\ Cardinality(round) >= 3

\* C2: the free list is acyclic, ends in NULL, visits each element at most
\* once and visits exactly the elements of the owned chunks that are not on
\* loan; so totused = chunks x pchunk - length of the free list.
C2_FreeListPartition ==
    alive =>
        LET fl == FreeList(World)
        IN /\ fl.ok
           /\ Range(fl.seq) = OwnedSlots(World) \ live
           /\ live \subseteq OwnedSlots(World)
           /\ pool.totused = Len(pool.chunks) * pool.pchunk - Len(fl.seq)

C2_Witness ==
    /\ op = "free"
    /\ Len(pool.chunks) >= 2
    /\ Cardinality(live) >= 2
    /\ pool.free[1] # pool.chunks[1]
    /\ \E a \in OwnedSlots(World) \ live : a[1] = pool.chunks[1]

\* C3: with ALLOW_ITER, a fresh iterator stepped until NULL yields exactly
\* count() references, all distinct, each one live, none a freed one.
C3_IterationComplete ==
    (alive /\ AllowIter(pool)) =>
        LET ys == FreshIteration(World)
        IN /\ Len(ys) = BLI_mempool_count(World)
           /\ \A i, j \in DOMAIN ys : i # j => ys[i] # ys[j]
           /\ Range(ys) = live
           /\ (op = "iterstep" /\ ret # NULL) => ret \in live

C3_Witness ==
    /\ AllowIter(pool)
    /\ op = "iterstep"
    /\ ret # NULL
    /\ ret[1] # pool.chunks[1]
    /\ Cardinality(live) >= 2
    /\ \E a \in OwnedSlots(World) \ live : a[1] = pool.chunks[1] /\ a[2] = 0

\* C4: when a free brings the count to zero the pool is left with exactly one
\* chunk, every other chunk is back with the backend, the free list is the
\* pchunk elements of that chunk and nothing else, and the next alloc is
\* served from it without a new chunk.
C4_ShrinkToOneChunk ==
    /\ [](op = "free" /\ pool.totused = 0 =>
            LET fl == FreeList(World)
            IN /\ Len(pool.chunks) = 1
               /\ heap = {pool.chunks[1]}
               /\ fl.ok
               /\ Len(fl.seq) = pool.pchunk
               /\ Range(fl.seq) = {pool.chunks[1]} \X (0 .. (pool.pchunk - 1)))
    /\ [][(op = "free" /\ pool.totused = 0 /\ op' \in {"alloc", "calloc"}) =>
            (got' = {} /\ ret' \in OwnedSlots(World))]_vars

C4_Witness ==
    /\ op = "free"
    /\ pool.totused = 0
    /\ Cardinality(gone) >= 2

\* C5: with ALLOW_ITER every element on the free list is tagged FREEWORD
\* and no element on loan is.
C5_TagsMatchFreeList ==
    (alive /\ AllowIter(pool)) =>
        /\ \A a \in Range(FreeList(World).seq) : mem[a].freeword = FREEWORD
        /\ \A a \in OwnedSlots(World) \ live : mem[a].freeword = FREEWORD
        /\ \A a \in live : mem[a].freeword # FREEWORD

C5_Witness ==
    /\ AllowIter(pool)
    /\ op = "free"
    /\ Cardinality(gone) >= 1
    /\ Cardinality(round) >= 3

\* C6: once every reference of a round of allocs has been freed count() is 0,
\* and the alloc that follows is served, without a new chunk, an address
\* that an alloc of that round had returned and a free had taken back.
C6_RoundTripReuse ==
    /\ (alive /\ round # {} /\ live = {}) => BLI_mempool_count(World) = 0
    /\ (alive /\ op \in {"alloc", "calloc"} /\ drained # {}) =>
            /\ ret \in drained
            /\ ret \in OwnedSlots(World)
            /\ got = {}
            /\ BLI_mempool_count(World) = 1

C6_Witness ==
    /\ op = "alloc"
    /\ Cardinality(drained) >= 3
    /\ ret \in drained

\* what a caller can tell of a pool: the count, the number of chunks, the
\* free list and (with ALLOW_ITER) the tags, elements named by the position
\* of their chunk in the chunk list and their index in the chunk
ChunkPos(w, c) == CHOOSE i \in DOMAIN w.pool.chunks : w.pool.chunks[i] = c

Observable(w) ==
    LET fl == FreeList(w)
    IN [count |-> BLI_mempool_count(w),
        nchunks |-> Len(w.pool.chunks),
        pchunk |-> w.pool.pchunk,
        flag |-> w.pool.flag,
        freeok |-> fl.ok,
        free |-> [i \in DOMAIN fl.seq |->
                    <<ChunkPos(w, fl.seq[i][1]), fl.seq[i][2]>>],
        tags |-> IF AllowIter(w.pool)
                 THEN [x \in (DOMAIN w.pool.chunks) \X (0 .. (w.pool.pchunk - 1)) |->
                        w.mem[<<w.pool.chunks[x[1]], x[2]>>].freeword]
                 ELSE <<>>]

\* C7: clear leaves count 0, one chunk, the free list holding the pchunk
\* elements of that chunk in slot order, all tagged free under ALLOW_ITER:
\* what a pool newly created with one chunk and the same configuration shows.
C7_ClearIsFreshPool ==
    (op = "clear") =>
        /\ BLI_mempool_count(World) = 0
        /\ Len(pool.chunks) = 1
        /\ heap = {pool.chunks[1]}
        /\ FreeList(World).seq = [i \in 1 .. pool.pchunk |-> <<pool.chunks[1], i - 1>>]
        /\ Observable(World)
             = Observable(BLI_mempool_create(ElemSize, 0, pool.pchunk, pool.flag,
                                            AddrSeq(1)))

C7_Witness ==
    /\ op = "clear"
    /\ Cardinality(gone) >= 2
    /\ AllowIter(pool)

\* C8: BLI_mempool_create allocates ceil(totelem / pchunk) chunks, and one
\* chunk at least.
CeilDiv(a, b) == (a + b - 1) \div b

C8_CreateAllocatesCeil ==
    (op = "create") =>
        Cardinality(got) = (IF CeilDiv(totelem, pool.pchunk) < 1 THEN 1
                            ELSE CeilDiv(totelem, pool.pchunk))

\* C9: alloc obtains a chunk exactly when the free list is empty at the
\* call; then one chunk is obtained and appended at the tail of the chunk
\* list, its pchunk elements are threaded and the first is returned;
\* otherwise the chunks are as they were and only the head of the free list
\* leaves it.
C9_GrowOnlyWhenEmpty ==
    [][(op' \in {"alloc", "calloc"}) =>
        IF pool.free = NULL
        THEN /\ Cardinality(got') = 1
             /\ \E c \in got' :
                    /\ c \notin heap
                    /\ heap' = heap \cup {c}
                    /\ pool.chunks' = Append(pool.chunks, c)
                    /\ ret' = <<c, 0>>
                    /\ FreeList(World)'.ok
                    /\ <<ret'>> \o FreeList(World)'.seq
                         = [i \in 1 .. pool.pchunk |-> <<c, i - 1>>]
        ELSE /\ got' = {}
             /\ heap' = heap
             /\ pool.chunks' = pool.chunks
             /\ ret' = pool.free
             /\ FreeList(World)' = [FreeList(World) EXCEPT !.seq = Tail(@)]
    ]_vars

C9_Witness ==
    /\ op = "alloc"
    /\ got # {}
    /\ Len(pool.chunks) >= 3
    /\ pool.pchunk >= 2 \/ Len(pool.chunks) >= 4

\* C10: while the pool exists its chunk list is never empty and the chunk at
\* its head is the chunk create allocated first: no call replaces it and no
\* call gives it back to the backend.
C10_FirstChunkKept ==
    /\ [](alive =>
            /\ pool.chunks # <<>>
            /\ pool.chunks[1] \in heap
            /\ pool.chunks[1] \notin gone
            /\ op = "create" => pool.chunks[1] = backend_alloc({}))
    /\ [][alive' => pool.chunks'[1] = pool.chunks[1]]_vars

C10_Witness ==
    /\ alive
    /\ op = "free"
    /\ gone # {}
    /\ pool.chunks = <<backend_alloc({})>>


\* the place of an element in the pool: chunks in chunk list order, and the
\* slots of a chunk in index order
Place(w, a) == ChunkPos(w, a[1]) * w.pool.pchunk + a[2]

\* C11: with ALLOW_ITER a fresh iterator yields the live elements in strictly
\* increasing order of (position of the chunk in the chunk list, slot index),
\* whatever the order the elements were allocated in and freed slots reused.
C11_IterationOrder ==
    []((alive /\ AllowIter(pool)) =>
        LET ys == FreshIteration(World)
        IN /\ Range(ys) \subseteq OwnedSlots(World)
           /\ \A i \in DOMAIN ys :
                i > 1 => Place(World, ys[i - 1]) < Place(World, ys[i]))

\* an alloc has just reused a freed slot of an earlier chunk while an element
\* of a later chunk, allocated before it, is still live
C11_Witness ==
    /\ alive
    /\ AllowIter(pool)
    /\ op = "alloc"
    /\ got = {}
    /\ Cardinality(live) >= 3
    /\ \E a \in live : ChunkPos(World, a[1]) > ChunkPos(World, ret[1])
    /\ \E a \in live : a[1] = ret[1] /\ a[2] > ret[2]


\* C12: on a pool with ALLOW_ITER, BLI_mempool_findelem(pool, index) returns
\* the element a fresh iterator yields at 0-based position index when
\* 0 <= index < BLI_mempool_count(), and NULL for every other index (every
\* index when the pool is empty); the call leaves the chunk list, the free
\* list, the tags and the live count as they were.
C12_FindElem ==
    /\ [](alive /\ AllowIter(pool) =>
            \A index \in Indexes :
                LET r == BLI_mempool_findelem(World, index)
                    ys == FreshIteration(World)
                IN /\ ~ r.asserted
                   /\ IF 0 <= index /\ index < BLI_mempool_count(World)
                      THEN /\ index + 1 \in DOMAIN ys
                           /\ r.elem = ys[index + 1]
                      ELSE r.elem = NULL)
    /\ [](op = "findelem" =>
            \/ ret = NULL
            \/ \E i \in DOMAIN FreshIteration(World) :
                    /\ i <= BLI_mempool_count(World)
                    /\ ret = FreshIteration(World)[i])
    /\ [][op' = "findelem" => UNCHANGED <<pool, mem, heap, live>>]_vars

\* findelem has returned the last of at least three live elements, with a
\* free slot before it
C12_Witness ==
    /\ op = "findelem"
    /\ Cardinality(live) >= 3
    /\ ret = FreshIteration(World)[Cardinality(live)]
    /\ Place(World, ret) > Cardinality(live)


\* C13: on a pool with ALLOW_ITER, BLI_mempool_as_table stores exactly
\* BLI_mempool_count() references, element by element the sequence a fresh
\* iterator yields, and none past index count - 1, so its closing assertion
\* (p - data) == totused never trips; BLI_mempool_as_array likewise with
\* count x esize bytes. The buffers as_tableN and as_arrayN allocate are
\* filled to their end and no further.
C13_TableIsIteration ==
    /\ (alive /\ AllowIter(pool)) =>
         LET t == BLI_mempool_as_table(World)
             a == BLI_mempool_as_array(World)
             tN == BLI_mempool_as_tableN(World)
             aN == BLI_mempool_as_arrayN(World)
             ys == FreshIteration(World)
         IN /\ ~ t.asserted
            /\ Len(t.data) = BLI_mempool_count(World)
            /\ t.data = ys
            /\ ~ a.asserted
            /\ a.bytes = BLI_mempool_count(World) * pool.esize
            /\ a.data = ys
            /\ Len(tN.table.data) * SizeofPtr = tN.size
            /\ aN.array.bytes = aN.size
    /\ op \in {"as_table", "as_tableN", "as_array", "as_arrayN"} =>
         /\ Len(out) = BLI_mempool_count(World)
         /\ Range(out) = live
         /\ out = FreshIteration(World)

\* a table of at least three references has been filled from a pool of two
\* chunks or more with a free slot before the last live element
C13_Witness ==
    /\ op = "as_table"
    /\ Len(out) >= 3
    /\ Len(pool.chunks) >= 2
    /\ Place(World, out[Len(out)]) > Len(out)


\* C14: in a debug build, on a pool with ALLOW_ITER, BLI_mempool_free of a
\* reference that is already freed and that alloc has not returned since
\* trips a fatal assertion, whatever allocs and frees of other references
\* came in between, also when the first free drained the pool and made it
\* shrink; so no such free ever goes through.
C14_DoubleFreeAsserts ==
    /\ [](alive /\ AllowIter(pool) =>
            /\ \A addr \in Slots(pool.pchunk) \ live :
                    BLI_mempool_free_asserts(World, addr) # "none"
            /\ net = Cardinality(live))
    /\ [][(alive /\ AllowIter(pool) /\ ret' \in round \ live /\ op' # "alloc")
            => (~ alive' /\ op' \in {"doublefree", "notinpool"}
                /\ UNCHANGED <<pool, mem, heap, live>>)]_vars

\* the second free of a reference whose first free drained the pool: the
\* shrink has released the chunk the reference points into
C14_Witness ==
    /\ ~ alive
    /\ op \in {"doublefree", "notinpool"}
    /\ AllowIter(pool)
    /\ ret \in round
    /\ pool.totused = 0
    /\ Cardinality(round) >= 3
    /\ ret[1] \notin Range(pool.chunks)


\* C15: in a debug build BLI_mempool_free of an address outside the byte
\* range [chunk data, chunk data + csize) of every chunk the pool owns (an
\* address of another pool, of a chunk a shrink or a clear has released, or
\* past the end of a chunk) trips the fatal not-in-pool assertion, and an
\* address inside an owned chunk passes that check.
C15_FreeOutsideAsserts ==
    /\ [](alive =>
            \A addr \in AllAddrs :
                /\ addr \in OwnedSlots(World)
                     <=> BLI_mempool_free_asserts(World, addr) # "notinpool"
                /\ (addr[1] \notin heap \/ addr[1] \in gone)
                     => BLI_mempool_free_asserts(World, addr) = "notinpool")
    /\ [][/\ op' = "notinpool" => (~ alive' /\ ret' \notin OwnedSlots(World)
                                    /\ UNCHANGED <<pool, mem, heap, live>>)
          /\ (op' = "free" /\ alive) => (live \ live') \subseteq OwnedSlots(World)
         ]_vars

\* a free of the address one past the last slot of the pool's last chunk,
\* on a pool of two chunks that has live elements
C15_Witness ==
    /\ ~ alive
    /\ op = "notinpool"
    /\ Len(pool.chunks) >= 2
    /\ ret = <<pool.chunks[Len(pool.chunks)], pool.pchunk>>
    /\ Cardinality(live) >= 2


\* the calls that need ALLOW_ITER, and how a tripped assertion of each shows
IterCalls == {"iternew", "iterstep", "findelem", "as_table", "as_tableN",
              "as_array", "as_arrayN"}
IterAsserts == {"iternew_assert", "findelem_assert", "as_table_assert",
                "as_tableN_assert", "as_array_assert", "as_arrayN_assert"}

\* C16: on a pool created without ALLOW_ITER, BLI_mempool_iternew,
\* BLI_mempool_findelem, BLI_mempool_as_table and BLI_mempool_as_array (and
\* as_tableN, as_arrayN through them) are stopped by an assertion before any
\* slot of the pool is read as a free-list node or a tag: none of them
\* returns, and none stores anything.
C16_NoIterRejected ==
    /\ [](alive /\ ~ AllowIter(pool) =>
            LET t == BLI_mempool_as_table(World)
                a == BLI_mempool_as_array(World)
                tN == BLI_mempool_as_tableN(World).table
                aN == BLI_mempool_as_arrayN(World).array
            IN /\ \A index \in Indexes :
                    LET r == BLI_mempool_findelem(World, index)
                    IN r.asserted /\ r.seen = {}
               /\ t.asserted /\ t.seen = {} /\ t.data = <<>>
               /\ a.asserted /\ a.seen = {} /\ a.data = <<>>
               /\ tN.asserted /\ tN.seen = {} /\ tN.data = <<>>
               /\ aN.asserted /\ aN.seen = {} /\ aN.data = <<>>)
    /\ [](~ AllowIter(pool) => op \notin IterCalls)
    /\ [](op \in IterAsserts => ~ AllowIter(pool) /\ ~ alive /\ out = <<>>)
    /\ [][op' \in IterAsserts => UNCHANGED <<pool, mem, heap, live>>]_vars

\* as_tableN on a pool without ALLOW_ITER that has live elements in two
\* chunks has tripped the assertion
C16_Witness ==
    /\ op = "as_tableN_assert"
    /\ ~ AllowIter(pool)
    /\ Cardinality(live) >= 2
    /\ Len(pool.chunks) >= 2

\* C17: the scenario. On a pool of element size 16, estimate 4, 4 elements
\* per chunk, with ALLOW_ITER: the six allocs make the pool obtain a second
\* chunk during the allocations (what create obtained cannot hold the six,
\* and the pool has two chunks once they are made) and the count is then 6;
\* after the free of the 2nd and the 4th element allocated the count is 4
\* and a fresh iteration yields the four remaining elements in chunk and
\* slot order; after the free of all of them the count is 0 and one chunk
\* remains.
C17_Scenario ==
    /\ op = "create" =>
            /\ Len(pool.chunks) = 1
            /\ Len(pool.chunks) * pool.pchunk < ScAllocs
    /\ (op = "alloc" /\ hist.fresh /\ Len(hist.refs) = pool.pchunk + 1) =>
            got # {}
    /\ (Len(hist.refs) = ScAllocs /\ hist.fresh) =>
            /\ BLI_mempool_count(World) = ScAllocs
            /\ Len(pool.chunks) = 2
    /\ (Len(hist.refs) = ScAllocs /\ live = Range(hist.refs) \ ScPair) =>
            LET ys == FreshIteration(World)
            IN /\ BLI_mempool_count(World) = ScAllocs - 2
               /\ Range(ys) = live
               /\ Len(ys) = ScAllocs - 2
               /\ \A i, j \in DOMAIN ys :
                    i < j => Place(World, ys[i]) < Place(World, ys[j])
    /\ (Len(hist.refs) = ScAllocs /\ live = {}) =>
            /\ BLI_mempool_count(World) = 0
            /\ Len(pool.chunks) = 1


\* the k-th slot (k = 0, 1, ...) of the pool in chunk order, then slot order
SlotAt(w, k) == <<w.pool.chunks[(k \div w.pool.pchunk) + 1], k % w.pool.pchunk>>

\* C18: the free list create builds runs through every slot of every chunk
\* it allocated, in chunk order and then slot order; so on a fresh pool, with
\* no free in between, the k-th alloc (k = 0, 1, ...) returns slot
\* k mod pchunk of the chunk at position k div pchunk of the chunk list, and
\* goes on in this order into the chunks alloc adds.
C18_FreshAllocOrder ==
    /\ [](op = "create" =>
            /\ FreeList(World).ok
            /\ FreeList(World).seq
                 = [i \in 1 .. (Len(pool.chunks) * pool.pchunk) |-> SlotAt(World, i - 1)])
    /\ []((alive /\ hist.fresh) =>
            /\ Len(hist.refs) = BLI_mempool_count(World)
            /\ Len(hist.refs) <= Len(pool.chunks) * pool.pchunk
            /\ \A k \in DOMAIN hist.refs : hist.refs[k] = SlotAt(World, k - 1))
    /\ [][(hist.fresh /\ op' \in {"alloc", "calloc"}) =>
            /\ ret' = SlotAt(World', BLI_mempool_count(World))
            /\ hist'.refs = Append(hist.refs, ret')]_vars

\* on a pool create gave two chunks or more, the allocs have used them up
\* and the last one went into slot 0 of the chunk it added
C18_Witness ==
    /\ alive
    /\ hist.fresh
    /\ op = "alloc"
    /\ got # {}
    /\ Len(pool.chunks) >= 3
    /\ Len(hist.refs) = (Len(pool.chunks) - 1) * pool.pchunk + 1
    /\ totelem >= pool.pchunk


\* C19: under correct use BLI_mempool_alloc (and calloc) never returns a
\* reference equal to one that is live, so the references outstanding are
\* pairwise distinct: there are as many of them as the pool counts.
C19_NoAliasing ==
    /\ [](alive => Cardinality(live) = BLI_mempool_count(World))
    /\ [][op' \in {"alloc", "calloc"} =>
            /\ ret' # NULL
            /\ ret' \notin live
            /\ live' = live \cup {ret'}
            /\ Cardinality(live') = Cardinality(live) + 1]_vars

\* an alloc has reused a freed slot next to live elements, with free slots
\* left in the pool
C19_Witness ==
    /\ alive
    /\ op = "alloc"
    /\ ~ hist.fresh
    /\ got = {}
    /\ ret \in live
    /\ Cardinality(live) >= 3
    /\ pool.free # NULL


\* C20: under correct use every live reference points into a chunk the pool
\* owns and the backend still has allocated, from the alloc that returned it
\* to its own free, a clear or the destroy: alloc and calloc release no
\* chunk, and free releases chunks only in the call that brings the count to
\* exactly zero.
C20_LiveStaysOwned ==
    /\ [](alive =>
            /\ live \subseteq OwnedSlots(World)
            /\ Range(pool.chunks) \subseteq heap
            /\ \A a \in live : a[1] \notin gone)
    /\ [][op' \in {"alloc", "calloc"} =>
            /\ gone' = {}
            /\ heap \subseteq heap'
            /\ live \subseteq live']_vars
    /\ [][op' = "free" =>
            /\ gone' # {} => (pool'.totused = 0 /\ live' = {} /\ pool.totused = 1)
            /\ \A a \in live' : a \in live /\ a[1] \in heap']_vars

\* a free has left a chunk of the pool without any live element while other
\* elements stay live: the chunk is kept
C20_Witness ==
    /\ alive
    /\ op = "free"
    /\ gone = {}
    /\ live # {}
    /\ Len(pool.chunks) >= 3
    /\ \E c \in Range(pool.chunks) : \A a \in live : a[1] # c


\* C21: the free list is last in, first out. A free of x that leaves the
\* count above zero makes x the head of the free list, and an alloc returns
\* the head it finds and obtains no chunk, so the next alloc returns x; a
\* free that brings the count to zero leaves slot 0 of the first chunk at
\* the head, whichever slot x was, and the next alloc returns that.
C21_FreeListIsLIFO ==
    /\ [][op' = "free" =>
            \E x \in live :
                /\ live' = live \ {x}
                /\ IF pool'.totused > 0 THEN pool'.free = x
                   ELSE pool'.free = <<pool'.chunks[1], 0>>]_vars
    /\ [][(op' \in {"alloc", "calloc"} /\ pool.free # NULL) =>
            /\ ret' = pool.free
            /\ got' = {}]_vars
    /\ [][(op = "free" /\ op' \in {"alloc", "calloc"}) =>
            /\ pool.totused > 0 => (ret' \in round \ live /\ got' = {})
            /\ pool.totused = 0 => ret' = <<pool.chunks[1], 0>>]_vars
    /\ [][op' \in {"iternew", "iterstep"} => pool' = pool /\ mem' = mem]_vars

\* an alloc has returned a freed slot although a free slot lies before it
\* in the pool: the slot last freed, not the first free one
C21_Witness ==
    /\ alive
    /\ op = "alloc"
    /\ got = {}
    /\ ~ hist.fresh
    /\ Cardinality(live) >= 3
    /\ \E a \in OwnedSlots(World) \ live : Place(World, a) < Place(World, ret)


\* C22: with ALLOW_ITER, however the steps of one iterator are interleaved
\* with allocs and with frees that never bring the count to zero: no step
\* reads a slot of a chunk the pool has released, an element the steps
\* return is live and not tagged free at that moment and is returned once,
\* and once a step has returned NULL every element that was live during the
\* whole iteration has been returned.
C22_IterationAmongCalls ==
    /\ [](walk.on =>
            /\ iter.curchunk \in Range(pool.chunks) \cup {0}
            /\ BLI_mempool_iterstep(World, iter).seen \subseteq OwnedSlots(World)
            /\ \A c \in Range(pool.chunks) : c \in heap
            /\ \A i, j \in DOMAIN walk.yielded :
                    i # j => walk.yielded[i] # walk.yielded[j]
            /\ walk.stay \subseteq live
            /\ walk.done => walk.stay \subseteq Range(walk.yielded))
    /\ [][(walk.on /\ op' = "iterstep") =>
            /\ heap' = heap /\ gone' = {}
            /\ ret' # NULL =>
                /\ ret' \in live
                /\ mem[ret'].freeword # FREEWORD
                /\ walk'.yielded = Append(walk.yielded, ret')]_vars
    /\ [][walk.on => gone' = {} /\ heap \subseteq heap']_vars

\* the iteration has ended on a pool where, since it began, an element was
\* freed, an element was allocated in a chunk added meanwhile, and two
\* elements stayed live
C22_Witness ==
    /\ walk.on
    /\ walk.done
    /\ Cardinality(walk.stay) >= 2
    /\ Len(walk.yielded) > Cardinality(walk.stay)
    /\ \E a \in live : a \notin Range(walk.yielded)
    /\ Len(pool.chunks) >= 2


\* C23: a BLI_mempool_free that brings the count to zero leaves the pool in
\* the state BLI_mempool_clear would have left from the same pool: the
\* first chunk alone, count 0, the free list from slot 0 through the slots
\* in slot order to NULL and, with ALLOW_ITER, every slot tagged free. The
\* two states are the same state, so no later call can tell them apart.
C23_DrainIsClear ==
    /\ [][(op' = "free" /\ pool'.totused = 0) =>
            LET c == BLI_mempool_clear(World)
            IN /\ pool' = c.pool
               /\ mem' = c.mem
               /\ heap' = c.heap
               /\ gone' = c.gone]_vars
    /\ []((alive /\ op = "free" /\ pool.totused = 0) =>
            /\ Len(pool.chunks) = 1
            /\ FreeList(World).ok
            /\ FreeList(World).seq
                 = [i \in 1 .. pool.pchunk |-> <<pool.chunks[1], i - 1>>]
            /\ AllowIter(pool) =>
                    \A a \in OwnedSlots(World) : mem[a].freeword = FREEWORD
            /\ Observable(World) = Observable(BLI_mempool_clear(World)))

\* the free of the last live element has drained a pool of two chunks or
\* more, of two slots or more each, that had held three elements or more
C23_Witness ==
    /\ alive
    /\ op = "free"
    /\ pool.totused = 0
    /\ Cardinality(gone) >= 1
    /\ Cardinality(round) >= 3
    /\ pool.pchunk >= 2


\* n calls of BLI_mempool_iterstep in a row on the iterator it, nothing
\* called on the pool in between: what each call returned and read
RECURSIVE iterstep_calls(_, _, _, _)
iterstep_calls(w, it, n, acc) ==
    IF n = 0 THEN acc
    ELSE LET r == BLI_mempool_iterstep(w, it)
         IN iterstep_calls(w, r.it, n - 1,
                           Append(acc, [ret |-> r.ret, seen |-> r.seen,
                                        curindex |-> r.it.curindex]))

\* C24: with no call on the pool in between, the steps of the iterator that
\* BLI_mempool_iternew has just made return NULL by call count() + 1 at the
\* latest and NULL from then on; the slots the calls read are slots below pchunk of
\* owned chunks, none read twice, so at most chunks x pchunk in all; and
\* on a pool whose count is zero the first call returns NULL and reads no
\* slot.
C24_IterationEnds ==
    [](op = "iternew" =>
        LET n == BLI_mempool_count(World)
            cs == iterstep_calls(World, iter, n + 2, <<>>)
        IN /\ cs[n + 1].ret = NULL
           /\ \A i, j \in DOMAIN cs : (i < j /\ cs[i].ret = NULL) => cs[j].ret = NULL
           /\ \A i \in DOMAIN cs :
                /\ cs[i].curindex < pool.pchunk
                /\ \A a \in cs[i].seen :
                     a[1] \in Range(pool.chunks) /\ a[2] >= 0 /\ a[2] < pool.pchunk
           /\ \A i, j \in DOMAIN cs : i # j => cs[i].seen \cap cs[j].seen = {}
           /\ n = 0 => (cs[1].ret = NULL /\ cs[1].seen = {}))

\* an iterator has been stepped to its end on a pool of two chunks that has
\* three live elements or more and a free slot
C24_Witness ==
    /\ alive
    /\ op = "iterstep"
    /\ ret = NULL
    /\ iter.pool
    /\ iter.curchunk = 0
    /\ Cardinality(live) >= 3
    /\ Len(pool.chunks) >= 2
    /\ pool.free # NULL


\* ---------------------------------------- creation with any element size
\* A program that creates a pool with some element size, destroys it and
\* creates the next one.  The element sizes are the small ones and two that
\* are large for an int.
HugeEsize == 2 ^ (IntBits - 2)

EsizeSamples == (0 .. MaxEsize) \cup {HugeEsize, INT_MAX}

CreateInputs ==
    {a \in [esize : EsizeSamples, totelem : 0 .. MaxTotelem,
            pchunk : 1 .. MaxPchunk, flag : Flags] :
        maxchunks(a.totelem, a.pchunk) * a.pchunk <= MaxSlots}

\* esize * pchunk of BLI_mempool_create overflows for the arguments a
CreateOverflows(a) == int_overflows(MAX2(a.esize, MEMPOOL_ELEM_SIZE_MIN), a.pchunk)

\* What BLI_mempool_create(a) leaves.  A signed overflow is undefined: the
\* product wraps around, or (trapped) the build traps on it and the process
\* ends at the multiplication, before a chunk is allocated.
Created(a, trapped) ==
    BLI_mempool_create(a.esize, a.totelem, a.pchunk, a.flag,
                       IF trapped THEN <<>> ELSE AddrSeq(maxchunks(a.totelem, a.pchunk)))

InitCreate ==
    \E a \in CreateInputs, trapped \in BOOLEAN :
        /\ trapped => CreateOverflows(a)
        /\ LET w == Created(a, trapped)
           IN /\ pool = w.pool
              /\ mem = w.mem
              /\ heap = w.heap
              /\ got = w.got
              /\ gone = w.gone
        /\ totelem = a.totelem
        /\ asked = a.esize
        /\ alive = ~ trapped
        /\ op = IF trapped THEN "trap" ELSE "create"
        /\ live = {}
        /\ ret = NULL
        /\ net = 0
        /\ round = {}
        /\ drained = {}
        /\ iter = NoIter
        /\ hist = [fresh |-> TRUE, refs |-> <<>>]
        /\ out = <<>>
        /\ walk = NoWalk

\* the next run of the program, after the pool was destroyed or the
\* process ended
Recreate ==
    /\ ~ alive
    /\ \E a \in CreateInputs, trapped \in BOOLEAN :
        /\ trapped => CreateOverflows(a)
        /\ LET w == Created(a, trapped)
           IN /\ pool' = w.pool
              /\ mem' = w.mem
              /\ heap' = w.heap
              /\ got' = w.got
              /\ gone' = w.gone
        /\ totelem' = a.totelem
        /\ asked' = a.esize
        /\ alive' = ~ trapped
        /\ op' = IF trapped THEN "trap" ELSE "create"
    /\ live' = {}
    /\ ret' = NULL
    /\ net' = 0
    /\ round' = {}
    /\ drained' = {}
    /\ iter' = NoIter
    /\ hist' = [fresh |-> TRUE, refs |-> <<>>]
    /\ out' = <<>>
    /\ walk' = NoWalk

NextCreate == Destroy \/ Recreate

SpecCreate == InitCreate /\ [][NextCreate]_vars

\* C25: the pool BLI_mempool_create returns stores the element size asked
\* for, raised to two pointer sizes and, with ALLOW_ITER, to the size of
\* BLI_freenode; its csize is that esize times pchunk; so each of the pchunk
\* slots, esize bytes at k * esize, ends within csize bytes.  (The products
\* are written as quotients: csize = esize * pchunk is csize \div pchunk =
\* esize with no remainder, (k + 1) * esize <= csize is esize <= csize \div
\* (k + 1).)
C25_ChunkSize ==
    (alive /\ op = "create") =>
        /\ pool.esize = MAX2(asked, IF AllowIter(pool)
                                    THEN MAX2(SizeofPtr * 2, SizeofFreenode)
                                    ELSE SizeofPtr * 2)
        /\ pool.csize \div pool.pchunk = pool.esize
        /\ pool.csize % pool.pchunk = 0
        /\ \A k \in 0 .. (pool.pchunk - 1) : pool.esize <= pool.csize \div (k + 1)

====
